---- MODULE Spec2Model ----
(***************************************************************************)
(* Model of ConfigManager.py: a JSON configuration loader whose load       *)
(* method is wrapped by a schema validator (validate_config) and memoised  *)
(* by functools.lru_cache(maxsize=5).                                      *)
(***************************************************************************)
EXTENDS Integers, Sequences, FiniteSets, TLC

VARIABLES files, cache, last, scen, hist, mutated, cfg, vres

vars == <<files, cache, last, scen, hist, mutated, cfg, vres>>

(* ------------------------------ bounds --------------------------------- *)
\* names requested on loader A when the cache is driven to eviction
NumNames == 6
\* names requested on loader A when the files are damaged
NumNamesF == 2

(* --------------------------- program constants -------------------------- *)
maxsize == 5

(* ------------------------------ Python values --------------------------- *)
PyNone == [t |-> "NoneType"]
PyBool(b) == [t |-> "bool", b |-> b]
PyInt(n) == [t |-> "int", n |-> n]
PyFloat(n) == [t |-> "float", n |-> n]
PyStr(s) == [t |-> "str", s |-> s]
PyList(q) == [t |-> "list", q |-> q]
PyDict(f) == [t |-> "dict", f |-> f]

(* ------------------------------ JSON texts ------------------------------ *)
\* A file is absent, holds text that is not JSON, or holds a JSON document.
Absent == [k |-> "absent"]
Garbage == [k |-> "garbage"]
JsonText(j) == [k |-> "json", j |-> j]

JNull == [j |-> "null"]
JBool(b) == [j |-> "bool", b |-> b]
\* a number literal; frac says whether it is written with a fraction/exponent
JNum(n, frac) == [j |-> "number", n |-> n, frac |-> frac]
JString(s) == [j |-> "string", s |-> s]
JArray(q) == [j |-> "array", q |-> q]
JObject(f) == [j |-> "object", f |-> f]

\* json.load's decoding of a JSON document into a Python value
RECURSIVE JsonDecode(_)
JsonDecode(j) ==
    CASE j.j = "null" -> PyNone
      [] j.j = "bool" -> PyBool(j.b)
      [] j.j = "number" -> IF j.frac THEN PyFloat(j.n) ELSE PyInt(j.n)
      [] j.j = "string" -> PyStr(j.s)
      [] j.j = "array" -> PyList([i \in DOMAIN j.q |-> JsonDecode(j.q[i])])
      [] j.j = "object" -> PyDict([x \in DOMAIN j.f |-> JsonDecode(j.f[x])])

(* ------------------------------ validation ------------------------------ *)
\* schema={"host": str, "port": int, "debug": bool}, in insertion order
schema == << [key |-> "host", type |-> "str"],
             [key |-> "port", type |-> "int"],
             [key |-> "debug", type |-> "bool"] >>

\* isinstance(v, ty): bool is a subclass of int
IsInstance(v, ty) == v.t = ty \/ (ty = "int" /\ v.t = "bool")

\* the strings of the model that contain `sub` as a substring
Substr(sub, s) == <<sub, s>> \in { <<"host", "host">>, <<"host", "localhost">>,
                                   <<"port", "port">>, <<"debug", "debug">> }

\* `key in config`: the containers support it, anything else raises TypeError
SupportsIn(v) == v.t \in {"dict", "str", "list"}
KeyIn(key, v) ==
    CASE v.t = "dict" -> key \in DOMAIN v.f
      [] v.t = "str" -> Substr(key, v.s)
      [] v.t = "list" -> \E i \in DOMAIN v.q : v.q[i] = PyStr(key)

\* `config[key]` with a str key is defined on dicts only
SupportsItem(v) == v.t = "dict"

\* os.path.join(config_dir, f"{config_name}.json")
Join(dir, name) == [dir |-> dir, file |-> <<name, "json">>]
NoPath == [dir |-> "-", file |-> <<0, "-">>]

\* what a call raises: the exception class and what its message names
NoErr ==
    [exc |-> "none", kind |-> "none", key |-> "-", expected |-> "-", got |-> "-",
     path |-> NoPath]
ConfigErrorMissing(key) ==
    [exc |-> "ConfigError", kind |-> "missing", key |-> key, expected |-> "-",
     got |-> "-", path |-> NoPath]
ConfigErrorType(key, expected, got) ==
    [exc |-> "ConfigError", kind |-> "type", key |-> key, expected |-> expected,
     got |-> got, path |-> NoPath]
ConfigErrorNotFound(path) ==
    [exc |-> "ConfigError", kind |-> "notfound", key |-> "-", expected |-> "-",
     got |-> "-", path |-> path]
\* raised by `in` / subscription on a value that does not support it
TypeError ==
    [exc |-> "TypeError", kind |-> "none", key |-> "-", expected |-> "-", got |-> "-",
     path |-> NoPath]
\* raised by json.load on text that is not JSON
JSONDecodeError ==
    [exc |-> "JSONDecodeError", kind |-> "none", key |-> "-", expected |-> "-",
     got |-> "-", path |-> NoPath]

\* an iteration that reads config.get(key) and so reports an absent key as a
\* value of the wrong type
CheckKeyGet(config, key, expected) ==
    IF ~SupportsIn(config) THEN TypeError
    ELSE IF ~SupportsItem(config) THEN TypeError
    ELSE IF ~KeyIn(key, config) THEN ConfigErrorType(key, expected, "NoneType")
    ELSE IF ~IsInstance(config.f[key], expected)
         THEN ConfigErrorType(key, expected, config.f[key].t)
    ELSE NoErr
\* one iteration of the loop over schema.items()
CheckKey(config, key, expected) ==
    IF ~SupportsIn(config) THEN TypeError
    ELSE IF ~KeyIn(key, config) THEN ConfigErrorMissing(key)
    ELSE IF ~SupportsItem(config) THEN TypeError
    ELSE IF ~IsInstance(config.f[key], expected)
         THEN ConfigErrorType(key, expected, config.f[key].t)
    ELSE NoErr

\* a loop that runs over the schema from its last key to its first
RECURSIVE ValidateFromBack(_, _)
ValidateFromBack(config, i) ==
    IF i > Len(schema) THEN NoErr
    ELSE LET j == Len(schema) + 1 - i
             e == CheckKey(config, schema[j].key, schema[j].type)
         IN IF e # NoErr THEN e ELSE ValidateFromBack(config, i + 1)
\* the loop of wrapper: the first iteration that raises ends it
RECURSIVE ValidateFrom(_, _)
ValidateFrom(config, i) ==
    IF i > Len(schema) THEN NoErr
    ELSE LET e == CheckKey(config, schema[i].key, schema[i].type)
         IN IF e # NoErr THEN e ELSE ValidateFrom(config, i + 1)

\* a validation that returns only the members the schema names
ValidateStrip(config) ==
    LET e == ValidateFrom(config, 1)
    IN [err |-> e,
        ret |-> IF e = NoErr
                THEN PyDict([x \in {schema[i].key : i \in DOMAIN schema} |-> config.f[x]])
                ELSE PyNone,
        logged |-> e = NoErr]
\* the validation part of wrapper: the error raised and the value returned
Validate(config) ==
    LET e == ValidateFrom(config, 1)
    IN [err |-> e, ret |-> IF e = NoErr THEN config ELSE PyNone,
        logged |-> e = NoErr]

(* ------------------------------ the loader ------------------------------ *)
Loaders == {"A", "B"}
\* self.config_dir of each instance
config_dir == [l \in Loaders |-> IF l = "A" THEN "dirA" ELSE "dirB"]

\* the calls load(self, config_name) the callers make: loader A is asked for
\* NumNames names, loader B for one
NamesOf(l) == IF l = "A" THEN 1..NumNames ELSE {1}
Keys == {k \in Loaders \X (1..NumNames) : k[2] \in NamesOf(k[1])}
\* the calls made while the files are damaged
KeysF == {k \in Keys : k[2] <= NumNamesF}
Paths == {Join(config_dir[k[1]], k[2]) : k \in Keys}
\* the files the environment rewrites while the program runs
VarPaths == {Join(config_dir["A"], 1)}

ValidA == JsonText(JObject([host |-> JString("localhost"), port |-> JNum(8080, FALSE),
                            debug |-> JBool(TRUE)]))
ValidB == JsonText(JObject([host |-> JString("example"), port |-> JNum(9090, FALSE),
                            debug |-> JBool(FALSE), extra |-> JNull]))
NoPort == JsonText(JObject([host |-> JString("localhost"), debug |-> JBool(TRUE)]))
\* what the environment writes: a deleted file, text that is not JSON, a JSON
\* document that is not an object, and objects the schema accepts or rejects
FileSamples == { Absent, Garbage, JsonText(JNull), ValidA, ValidB, NoPort }
\* the documents an edit writes when it keeps the file valid
ValidSamples == { ValidA, ValidB }

FsOp(op, path) == [op |-> op, path |-> path]

\* a load that reports the requested name instead of the resolved path
RawLoadBareName(fs, l, name) ==
    LET file_path == Join(config_dir[l], name)
    IN IF fs[file_path] = Absent
       THEN [err |-> ConfigErrorNotFound(Join("", name)), ret |-> PyNone,
             fsops |-> << FsOp("exists", file_path) >>, logs |-> << >>]
       ELSE IF fs[file_path] = Garbage
       THEN [err |-> JSONDecodeError, ret |-> PyNone,
             fsops |-> << FsOp("exists", file_path), FsOp("open", file_path),
                          FsOp("read", file_path), FsOp("close", file_path) >>,
             logs |-> << >>]
       ELSE [err |-> NoErr, ret |-> JsonDecode(fs[file_path].j),
             fsops |-> << FsOp("exists", file_path), FsOp("open", file_path),
                          FsOp("read", file_path), FsOp("close", file_path) >>,
             logs |-> << [msg |-> "loaded", path |-> file_path] >>]
\* a load that opens the file without `with` and closes it after a
\* successful parse only
RawLoadLeak(fs, l, name) ==
    LET file_path == Join(config_dir[l], name)
    IN IF fs[file_path] = Absent
       THEN [err |-> ConfigErrorNotFound(file_path), ret |-> PyNone,
             fsops |-> << FsOp("exists", file_path) >>, logs |-> << >>]
       ELSE IF fs[file_path] = Garbage
       THEN [err |-> JSONDecodeError, ret |-> PyNone,
             fsops |-> << FsOp("exists", file_path), FsOp("open", file_path),
                          FsOp("read", file_path) >>,
             logs |-> << >>]
       ELSE [err |-> NoErr, ret |-> JsonDecode(fs[file_path].j),
             fsops |-> << FsOp("exists", file_path), FsOp("open", file_path),
                          FsOp("read", file_path), FsOp("close", file_path) >>,
             logs |-> << [msg |-> "loaded", path |-> file_path] >>]
\* the body of load: what it raises, returns, logs and does to the file system
RawLoad(fs, l, name) ==
    LET file_path == Join(config_dir[l], name)
    IN IF fs[file_path] = Absent
       THEN [err |-> ConfigErrorNotFound(file_path), ret |-> PyNone,
             fsops |-> << FsOp("exists", file_path) >>, logs |-> << >>]
       ELSE IF fs[file_path] = Garbage
       THEN [err |-> JSONDecodeError, ret |-> PyNone,
             fsops |-> << FsOp("exists", file_path), FsOp("open", file_path),
                          FsOp("read", file_path), FsOp("close", file_path) >>,
             logs |-> << >>]
       ELSE [err |-> NoErr, ret |-> JsonDecode(fs[file_path].j),
             fsops |-> << FsOp("exists", file_path), FsOp("open", file_path),
                          FsOp("read", file_path), FsOp("close", file_path) >>,
             logs |-> << [msg |-> "loaded", path |-> file_path] >>]

\* a wrapper that returns what load returned without checking it
WrapperUnchecked(fs, l, name) ==
    RawLoad(fs, l, name) @@ [validated |-> FALSE]
\* a wrapper that logs the validation message before it runs the checks
WrapperLogFirst(fs, l, name) ==
    LET r == RawLoad(fs, l, name)
        v == Validate(r.ret)
    IN IF r.err # NoErr THEN [r EXCEPT !.logs = << >>] @@ [validated |-> FALSE]
       ELSE [err |-> v.err, ret |-> v.ret, fsops |-> r.fsops,
             logs |-> Append(r.logs, [msg |-> "validated", path |-> NoPath]),
             validated |-> TRUE]
\* wrapper: call load, then validate what it returned
Wrapper(fs, l, name) ==
    LET r == RawLoad(fs, l, name)
        v == Validate(r.ret)
    IN IF r.err # NoErr THEN [r EXCEPT !.logs = << >>] @@ [validated |-> FALSE]
       ELSE [err |-> v.err, ret |-> v.ret, fsops |-> r.fsops,
             logs |-> IF v.logged
                      THEN Append(r.logs, [msg |-> "validated", path |-> NoPath])
                      ELSE r.logs,
             validated |-> TRUE]

(* ------------------------------ lru_cache ------------------------------- *)
\* the cache is one ordered map for the decorated function, keyed by the
\* call's arguments (self, config_name); oldest entry first
CacheKeys(c) == {c[i].key : i \in DOMAIN c}
\* a lookup that compares config_name and ignores self
LookupByName(c, key) == CHOOSE i \in DOMAIN c : c[i].key[2] = key[2]
Lookup(c, key) == CHOOSE i \in DOMAIN c : c[i].key = key
Remove(c, i) == [j \in 1..(Len(c) - 1) |-> IF j < i THEN c[j] ELSE c[j + 1]]
\* a hit that leaves the order of the entries as it is
TouchNoMove(c, key) == c
\* a hit moves the entry to the most-recent end
Touch(c, key) == Append(Remove(c, Lookup(c, key)), c[Lookup(c, key)])
\* the identity of the dict a json.load call builds: distinct from every
\* object that is alive in the cache (an identity is reused only after its
\* object has been dropped, as with id())
LiveIds(c) == {c[i].obj.id : i \in DOMAIN c}
NewId(c, key) == <<key, CHOOSE g \in 1..(Len(c) + 1) : <<key, g>> \notin LiveIds(c)>>

\* a hit that hands out a copy of the stored object
HitResultCopy(c, key) ==
    [id |-> NewId(c, key), val |-> c[Lookup(c, key)].obj.val]
\* a hit that refreshes the stored value from the file
HitResultReread(c, key) ==
    LET p == Join(config_dir[key[1]], key[2])
    IN [id |-> c[Lookup(c, key)].obj.id,
        val |-> IF files[p].k = "json" THEN JsonDecode(files[p].j) ELSE PyNone]
\* a hit that validates the stored object again and fails if it no longer
\* passes
HitResultRevalidate(c, key) ==
    IF ValidateFrom(c[Lookup(c, key)].obj.val, 1) = NoErr
    THEN c[Lookup(c, key)].obj
    ELSE [id |-> c[Lookup(c, key)].obj.id, val |-> PyNone]
\* what a hit returns: the stored object itself
HitResult(c, key) == c[Lookup(c, key)].obj
\* an insertion that drops the oldest entry only once the bound is exceeded
InsertLate(c, e) == IF Len(c) > maxsize THEN Append(Tail(c), e) ELSE Append(c, e)
\* an insertion that drops the newest entry when full
InsertEvictNewest(c, e) ==
    IF Len(c) >= maxsize THEN Append(SubSeq(c, 1, Len(c) - 1), e) ELSE Append(c, e)
\* a miss that returned stores the result, dropping the oldest entry when full
Insert(c, e) == IF Len(c) >= maxsize THEN Append(Tail(c), e) ELSE Append(c, e)

NoKey == <<"-", 0>>
NoObj == [id |-> <<NoKey, 0>>, val |-> PyNone]
NoCall == [op |-> "none", key |-> NoKey, hit |-> FALSE, err |-> NoErr, ret |-> NoObj,
           fsops |-> << >>, validated |-> FALSE, logs |-> << >>]
NotRun == [done |-> FALSE, err |-> NoErr, ret |-> PyNone, logged |-> FALSE]

\* history of the run: the keys loaded so far, while the run consists of
\* successful first-time loads on a single instance
NoScen == [ok |-> FALSE, loaded |-> << >>]
ScenNext(s, key) ==
    IF s.ok /\ Len(s.loaded) <= maxsize
            /\ (s.loaded = << >> \/ s.loaded[1][1] = key[1])
    THEN [s EXCEPT !.loaded = Append(@, key)]
    ELSE NoScen

\* history of the run: a hit on the oldest entry of a cache filled by
\* maxsize first-time loads (phase 1), followed by a load that misses and
\* succeeds (phase 2); key is the entry that was hit, next the one loaded
\* second
NoHist == [phase |-> 0, key |-> NoKey, next |-> NoKey]
HistHit(s, key) ==
    IF s.ok /\ Len(s.loaded) = maxsize /\ key = s.loaded[1]
    THEN [phase |-> 1, key |-> key, next |-> s.loaded[2]]
    ELSE NoHist
HistMiss(h) == IF h.phase = 1 THEN [h EXCEPT !.phase = 2] ELSE NoHist

Init ==
    /\ files = [p \in Paths |-> IF p.dir = config_dir["A"] THEN ValidA ELSE ValidB]
    /\ cache = << >>
    /\ last = NoCall
    /\ scen = [ok |-> TRUE, loaded |-> << >>]
    /\ hist = NoHist
    /\ mutated = FALSE
    /\ cfg = PyNone
    /\ vres = NotRun

\* config_loader.load(name) on instance l
Load(l, name) ==
    LET key == <<l, name>>
    IN /\ UNCHANGED <<files, mutated, cfg, vres>>
       /\ IF key \in CacheKeys(cache)
          THEN /\ cache' = Touch(cache, key)
               /\ last' = [NoCall EXCEPT !.op = "load", !.key = key, !.hit = TRUE,
                                         !.ret = HitResult(cache, key)]
               /\ scen' = NoScen
               /\ hist' = HistHit(scen, key)
          ELSE LET r == Wrapper(files, l, name)
               IN IF r.err # NoErr
                  THEN /\ last' = [NoCall EXCEPT !.op = "load", !.key = key,
                                       !.err = r.err, !.fsops = r.fsops,
                                       !.validated = r.validated, !.logs = r.logs]
                       /\ UNCHANGED <<cache, scen, hist>>
                  ELSE LET obj == [id |-> NewId(cache, key), val |-> r.ret]
                       IN /\ cache' = Insert(cache, [key |-> key, obj |-> obj])
                          /\ last' = [NoCall EXCEPT !.op = "load", !.key = key,
                                          !.ret = obj, !.fsops = r.fsops,
                                          !.validated = r.validated, !.logs = r.logs]
                          /\ scen' = ScenNext(scen, key)
                          /\ hist' = HistMiss(hist)

\* the environment replaces, creates or deletes a configuration file
WriteFile(p, content) ==
    /\ files[p] # content
    /\ files' = [files EXCEPT ![p] = content]
    /\ last' = [NoCall EXCEPT !.op = "write"]
    /\ UNCHANGED <<cache, scen, hist, mutated, cfg, vres>>

\* many names, files that stay valid
Next ==
    \/ \E k \in Keys : Load(k[1], k[2])
    \/ \E p \in VarPaths, c \in ValidSamples : WriteFile(p, c)

Spec == Init /\ [][Next]_vars

\* few names, files that are deleted, damaged and repaired
NextF ==
    \/ \E k \in KeysF : Load(k[1], k[2])
    \/ \E p \in VarPaths, c \in FileSamples : WriteFile(p, c)

SpecF == Init /\ [][NextF]_vars

\* what a caller does to a dict it got from load: config["port"] = "80"
MutateVal(v) == PyDict([v.f EXCEPT !["port"] = PyStr("80")])

\* a caller changes, in place, the object load returned to it for key; the
\* cache holds that same object
Mutate(key) ==
    /\ key \in CacheKeys(cache)
    /\ cache[Lookup(cache, key)].obj.val # MutateVal(cache[Lookup(cache, key)].obj.val)
    /\ cache' = [cache EXCEPT ![Lookup(cache, key)].obj.val = MutateVal(@)]
    /\ mutated' = TRUE
    /\ last' = [NoCall EXCEPT !.op = "mutate", !.key = key]
    /\ UNCHANGED <<files, scen, hist, cfg, vres>>

\* few names, damaged files, and callers that change what they were given
NextM ==
    \/ \E k \in KeysF : Load(k[1], k[2])
    \/ \E p \in VarPaths, c \in FileSamples : WriteFile(p, c)
    \/ \E k \in KeysF : Mutate(k)

SpecM == Init /\ [][NextM]_vars

(* ------------------- the validator on its own --------------------------- *)
\* the values a parsed member can have
PyVals == { PyStr("localhost"), PyStr("80"), PyInt(8080), PyBool(TRUE), PyFloat(1),
            PyNone }
MemberNames == {"host", "port", "debug", "extra"}
\* what func can hand to wrapper: dicts over the member names, and values that
\* are not dicts
Configs ==
    { PyDict(f) : f \in UNION { [D -> PyVals] : D \in SUBSET MemberNames } }
    \cup { PyNone, PyInt(5), PyStr("localhost"), PyStr("80"), PyList(<< >>),
           PyList(<< PyStr("host") >>) }

InitV ==
    /\ cfg \in Configs
    /\ vres = NotRun
    /\ files = [p \in Paths |-> IF p.dir = config_dir["A"] THEN ValidA ELSE ValidB]
    /\ cache = << >>
    /\ last = NoCall
    /\ scen = [ok |-> TRUE, loaded |-> << >>]
    /\ hist = NoHist
    /\ mutated = FALSE

\* wrapper's validation applied to the value func returned
RunValidate ==
    /\ ~vres.done
    /\ vres' = [done |-> TRUE] @@ Validate(cfg)
    /\ UNCHANGED <<files, cache, last, scen, hist, mutated, cfg>>

NextV == RunValidate

SpecV == InitV /\ [][NextV]_vars

(* ------------------------------ properties ------------------------------ *)
Cached(k) == \E i \in DOMAIN cache : cache[i].key = k
ObjOf(c, k) == c[CHOOSE i \in DOMAIN c : c[i].key = k].obj
PathOf(k) == [dir |-> config_dir[k[1]], file |-> <<k[2], "json">>]
\* the step is a call of load, with self and config_name in last'.key
IsLoad == vars' # vars /\ last'.op = "load"
LoadStep(k) == IsLoad /\ last'.key = k
FsTouched(call) == call.fsops # << >>
Required == {"host", "port", "debug"}
SchemaType(key) == CASE key = "host" -> "str" [] key = "port" -> "int"
                     [] key = "debug" -> "bool"

\* C1: while a name stays cached its entry keeps the object the first load
\* returned; a load of a cached name returns that very object, without any
\* file-system access and without validation.
CacheIdentity ==
    [][/\ \A i \in DOMAIN cache : \A j \in DOMAIN cache' :
            cache[i].key = cache'[j].key => cache[i].obj = cache'[j].obj
       /\ IsLoad =>
            LET k == last'.key
            IN /\ (~Cached(k) /\ last'.err = NoErr)
                     => (~last'.hit /\ ObjOf(cache', k) = last'.ret)
               /\ Cached(k)
                     => /\ last'.hit /\ last'.err = NoErr
                        /\ last'.ret.id = ObjOf(cache, k).id
                        /\ ~FsTouched(last') /\ ~last'.validated]_vars
\* a second load of a name returned the object that is cached for it
CacheIdentityWitness ==
    last.op = "load" /\ last.hit /\ Cached(last.key)
        /\ last.ret = ObjOf(cache, last.key)

\* C2: a load that fails leaves the cache's entries and their order as they
\* were and does not cache the name; a later load of the name takes the miss
\* path and returns the file's content once it is valid; every cached object
\* passes validation.
NothingCachedOnFailure ==
    /\ [](\A i \in DOMAIN cache : ValidateFrom(cache[i].obj.val, 1) = NoErr)
    /\ [][IsLoad =>
            LET k == last'.key
            IN /\ last'.err # NoErr
                     => (cache' = cache /\ ~Cached(k) /\ ~last'.hit)
               /\ (~Cached(k) /\ files[PathOf(k)] \in {ValidA, ValidB})
                     => /\ last'.err = NoErr /\ FsTouched(last') /\ last'.validated
                        /\ last'.ret.val = JsonDecode(files[PathOf(k)].j)]_vars
\* a load has failed on a schema violation and the cache holds other entries
NothingCachedOnFailureWitness ==
    /\ last.op = "load" /\ last.err.exc = "ConfigError" /\ last.err.kind = "missing"
    /\ Len(cache) >= 2 /\ ~Cached(last.key)

\* C3: after six successful loads of distinct names on one instance (no hit
\* in between) the first name is not cached and the other five are; the next
\* load of the first name is a miss that reads its file (if it still exists)
\* and, when it succeeds, returns the file's current content; a load of any
\* of the other five is a hit.
Eviction ==
    /\ []((scen.ok /\ Len(scen.loaded) = maxsize + 1)
             => /\ ~Cached(scen.loaded[1])
                /\ \A i \in 2..(maxsize + 1) : Cached(scen.loaded[i])
                /\ Len(cache) = maxsize)
    /\ [][(scen.ok /\ Len(scen.loaded) = maxsize + 1)
             => /\ LoadStep(scen.loaded[1])
                     => /\ ~last'.hit /\ FsTouched(last')
                        /\ files[PathOf(scen.loaded[1])] # Absent
                              => \E i \in DOMAIN last'.fsops :
                                   last'.fsops[i] = [op |-> "read",
                                                     path |-> PathOf(scen.loaded[1])]
                        /\ last'.err = NoErr
                              => last'.ret.val
                                   = JsonDecode(files[PathOf(scen.loaded[1])].j)
                /\ \A i \in 2..(maxsize + 1) :
                       LoadStep(scen.loaded[i]) => last'.hit]_vars
\* six names were loaded on one instance, the first one's file was then
\* replaced, and the first name was loaded again
EvictionWitness ==
    /\ last.op = "load" /\ ~last.hit /\ last.err = NoErr
    /\ last.key = <<"A", 1>> /\ Len(cache) = maxsize
    /\ files[PathOf(last.key)] = ValidB
    /\ last.ret.val = JsonDecode(ValidB.j)
    /\ \A i \in DOMAIN cache : cache[i].key[1] = "A"

\* C4: a load on one instance leaves the entries cached for every other
\* instance, and their order, unchanged.
CachePerInstance ==
    [][IsLoad =>
         \A l \in Loaders \ {last'.key[1]} :
            SelectSeq(cache', LAMBDA e : e.key[1] = l)
              = SelectSeq(cache, LAMBDA e : e.key[1] = l)]_vars

\* C5: whatever is done to the backing file leaves the cache as it is, and a
\* load of a name that is cached succeeds and returns the object as it was
\* stored, whether the file now holds other content, invalid content or is
\* gone.
Staleness ==
    [][/\ files' # files => cache' = cache
       /\ (IsLoad /\ Cached(last'.key))
              => /\ last'.err = NoErr
                 /\ last'.ret = ObjOf(cache, last'.key)
                 /\ ObjOf(cache', last'.key) = ObjOf(cache, last'.key)]_vars
\* a hit returned a value that the backing file no longer holds
StalenessWitness ==
    /\ last.op = "load" /\ last.hit /\ last.err = NoErr
    /\ files[PathOf(last.key)] \in {Absent, Garbage, ValidB}
    /\ last.ret.val = JsonDecode(ValidA.j)

\* C6: a configuration whose port is a boolean is rejected by validation.
BoolPortRejected ==
    (vres.done /\ cfg.t = "dict" /\ "port" \in DOMAIN cfg.f
        /\ cfg.f["port"].t = "bool")
      => vres.err # NoErr

\* C7: a load of a file whose content is not JSON fails with an error of the
\* ConfigError family.
MalformedIsConfigError ==
    (last.op = "load" /\ ~last.hit /\ files[PathOf(last.key)] = Garbage)
      => last.err.exc = "ConfigError"

\* C8: a load of a file that holds a JSON document, object or not, returns
\* the validated object or fails with an error of the ConfigError family.
JsonFailuresAreConfigErrors ==
    (last.op = "load" /\ ~last.hit /\ files[PathOf(last.key)].k = "json")
      => last.err.exc \in {"none", "ConfigError"}

\* C9: a load of a name that is not cached and whose file does not exist
\* fails with the file-not-found ConfigError naming {config_dir}/{name}.json,
\* after the existence check alone: nothing is opened, read or validated.
MissingFile ==
    (last.op = "load" /\ ~last.hit /\ files[PathOf(last.key)] = Absent)
      => /\ last.err.exc = "ConfigError" /\ last.err.kind = "notfound"
         /\ last.err.path = PathOf(last.key)
         /\ last.fsops = << [op |-> "exists", path |-> PathOf(last.key)] >>
         /\ ~last.validated /\ last.logs = << >>
\* a load of a name whose file was deleted has failed
MissingFileWitness ==
    /\ last.op = "load" /\ ~last.hit /\ files[PathOf(last.key)] = Absent
    /\ last.err.kind = "notfound"

\* C10 as stated: validating an object that lacks required keys fails with
\* the missing-key error naming a key the object lacks.
MissingKeyAlwaysReported ==
    (vres.done /\ cfg.t = "dict" /\ Required \ DOMAIN cfg.f # {})
      => /\ vres.err.exc = "ConfigError" /\ vres.err.kind = "missing"
         /\ vres.err.key \in Required \ DOMAIN cfg.f
\* C10: validating an object that lacks a required key fails with a
\* ConfigError; it is the missing-key error naming that key when every schema
\* key before it is present with a value the type check accepts.
MissingKeyFirstViolation ==
    (vres.done /\ cfg.t = "dict")
      => \A i \in DOMAIN schema :
           schema[i].key \notin DOMAIN cfg.f
             => /\ vres.err.exc = "ConfigError"
                /\ (\A j \in 1..(i - 1) :
                       /\ schema[j].key \in DOMAIN cfg.f
                       /\ \/ cfg.f[schema[j].key].t = SchemaType(schema[j].key)
                          \/ (SchemaType(schema[j].key) = "int"
                                /\ cfg.f[schema[j].key].t = "bool"))
                     => (vres.err.kind = "missing" /\ vres.err.key = schema[i].key)
\* an object with host and port but no debug was reported as lacking debug
MissingKeyWitness ==
    /\ vres.done /\ cfg.t = "dict" /\ DOMAIN cfg.f = {"host", "port"}
    /\ vres.err.kind = "missing" /\ vres.err.key = "debug"

\* C11: validating an object that has every required key with a value of the
\* schema's type succeeds and returns the object as it was given: the same
\* members with the same values, members outside the schema included.
PassThrough ==
    (vres.done /\ cfg.t = "dict"
        /\ \A key \in Required :
              key \in DOMAIN cfg.f /\ cfg.f[key].t = SchemaType(key))
      => /\ vres.err = NoErr
         /\ vres.ret = cfg
         /\ DOMAIN vres.ret.f = DOMAIN cfg.f
\* an object with the three required members and an extra one was validated
PassThroughWitness ==
    /\ vres.done /\ vres.err = NoErr /\ cfg.t = "dict"
    /\ DOMAIN cfg.f = Required \cup {"extra"}
    /\ cfg.f["port"].t = "int"
    /\ vres.ret = cfg

\* C12: a load that misses and succeeds logs the file-load message for its
\* path and then the validation message, once each; a load that hits logs
\* nothing; a load that fails logs no validation message. So the validation
\* messages of a run are as many as its successful misses.
LogSequence ==
    [][IsLoad =>
         /\ last'.hit => last'.logs = << >>
         /\ (~last'.hit /\ last'.err = NoErr)
               => last'.logs = << [msg |-> "loaded", path |-> PathOf(last'.key)],
                                 [msg |-> "validated", path |-> NoPath] >>
         /\ last'.err # NoErr
               => \A i \in DOMAIN last'.logs : last'.logs[i].msg # "validated"]_vars
\* a load that missed has logged its two messages
LogSequenceWitness ==
    /\ last.op = "load" /\ ~last.hit /\ last.err = NoErr
    /\ Len(last.logs) = 2 /\ last.logs[2].msg = "validated"

KeysIn(c) == {c[i].key : i \in DOMAIN c}
\* C13: the cache never holds more than maxsize entries; an entry leaves the
\* cache only in a load that misses, succeeds and finds the cache full, and
\* every such load removes exactly one entry and adds its own.
CacheBound ==
    /\ [](Len(cache) <= maxsize /\ Cardinality(KeysIn(cache)) = Len(cache))
    /\ [][/\ KeysIn(cache) \ KeysIn(cache') # {}
              => /\ IsLoad /\ ~last'.hit /\ last'.err = NoErr
                 /\ Len(cache) = maxsize
          /\ (IsLoad /\ ~last'.hit /\ last'.err = NoErr /\ Len(cache) = maxsize)
              => /\ Cardinality(KeysIn(cache) \ KeysIn(cache')) = 1
                 /\ KeysIn(cache') \ KeysIn(cache) = {last'.key}
                 /\ Len(cache') = maxsize]_vars
\* a load into a full cache has just replaced an entry
CacheBoundWitness ==
    /\ last.op = "load" /\ ~last.hit /\ last.err = NoErr
    /\ Len(cache) = maxsize /\ cache[Len(cache)].key = last.key
    /\ ~scen.ok

\* C14: the entries are kept in the order of their most recent load, hit or
\* miss: a load that succeeds puts its entry last and leaves the order of
\* the others as it was, and what an insertion into a full cache removes is
\* the first of them. So after maxsize first-time loads and a hit on the
\* first name, the next new name evicts the second name and keeps the first.
Recency ==
    /\ [](hist.phase = 2 => (Cached(hist.key) /\ ~Cached(hist.next)))
    /\ [][(IsLoad /\ last'.err = NoErr) =>
            LET k == last'.key
                others == SelectSeq(cache, LAMBDA e : e.key # k)
                othersAfter == SelectSeq(cache', LAMBDA e : e.key # k)
            IN /\ cache' # << >> /\ cache'[Len(cache')].key = k
               /\ othersAfter = IF ~last'.hit /\ Len(cache) = maxsize
                                THEN Tail(others) ELSE others]_vars
\* the first name was hit when it was the oldest entry, and the load of a new
\* name that followed has evicted the second name instead
RecencyWitness ==
    /\ hist.phase = 2 /\ Cached(hist.key) /\ ~Cached(hist.next)
    /\ Len(cache) = maxsize /\ last.op = "load" /\ ~last.hit

\* the members of an object that the check of a schema key rejects
Order == <<"host", "port", "debug">>
Accepted(v, ty) == v.t = ty \/ (ty = "int" /\ v.t = "bool")
Violates(c, key) ==
    key \notin DOMAIN c.f \/ ~Accepted(c.f[key], SchemaType(key))
\* C15: validation takes the keys in the order host, port, debug and, for
\* each, checks presence and then type; it fails at the first key that is
\* absent or whose value the type check rejects, with the missing-key error
\* if that key is absent and the type error otherwise, naming that key only;
\* it succeeds when there is no such key.
FirstViolationWins ==
    (vres.done /\ cfg.t = "dict")
      => IF \A i \in DOMAIN Order : ~Violates(cfg, Order[i])
         THEN vres.err = NoErr
         ELSE LET first == CHOOSE i \in DOMAIN Order :
                              /\ Violates(cfg, Order[i])
                              /\ \A j \in 1..(i - 1) : ~Violates(cfg, Order[j])
              IN /\ vres.err.exc = "ConfigError"
                 /\ vres.err.key = Order[first]
                 /\ vres.err.kind = IF Order[first] \in DOMAIN cfg.f
                                    THEN "type" ELSE "missing"
\* an object whose host has the wrong type and whose port is absent was
\* reported for host
FirstViolationWitness ==
    /\ vres.done /\ cfg.t = "dict"
    /\ "host" \in DOMAIN cfg.f /\ cfg.f["host"].t = "int"
    /\ "port" \notin DOMAIN cfg.f
    /\ vres.err.kind = "type" /\ vres.err.key = "host"

\* C16: in the file-system operations of a load call every open is followed
\* by the close of the same file with only the read of the parse in between,
\* whether the call returns, fails in the parse or fails validation; the
\* validation runs after the close.
HandleReleased ==
    last.op = "load"
      => /\ \A i \in DOMAIN last.fsops :
                last.fsops[i].op = "open"
                  => \E j \in (i + 1)..Len(last.fsops) :
                        /\ last.fsops[j] = [op |-> "close", path |-> last.fsops[i].path]
                        /\ \A m \in (i + 1)..(j - 1) :
                              last.fsops[m] = [op |-> "read", path |-> last.fsops[i].path]
         /\ last.validated => last.fsops[Len(last.fsops)].op = "close"
         /\ Cardinality({i \in DOMAIN last.fsops : last.fsops[i].op = "open"}) <= 1
\* a load whose parse failed has closed the file it opened
HandleReleasedWitness ==
    /\ last.op = "load" /\ last.err.exc = "JSONDecodeError"
    /\ \E i \in DOMAIN last.fsops : last.fsops[i].op = "open"
    /\ last.fsops[Len(last.fsops)].op = "close"

\* C17: an entry holds the object that a load for its own (instance, name)
\* built; a load that succeeds returns an object built for its own instance
\* and name, never one built for another instance that uses the same name;
\* a load that misses touches only {config_dir}/{name}.json of its own
\* instance and returns that file's content.
KeyedByInstance ==
    /\ [](\A i \in DOMAIN cache : cache[i].obj.id[1] = cache[i].key)
    /\ [][(IsLoad /\ last'.err = NoErr) =>
            /\ last'.ret.id[1] = last'.key
            /\ ~last'.hit
                  => /\ \A i \in DOMAIN last'.fsops :
                          last'.fsops[i].path = PathOf(last'.key)
                     /\ last'.ret.val = JsonDecode(files[PathOf(last'.key)].j)]_vars
\* both instances hold an entry for the same name, with different content,
\* and a second load on B has returned B's
KeyedByInstanceWitness ==
    /\ Cached(<<"A", 1>>) /\ Cached(<<"B", 1>>)
    /\ ObjOf(cache, <<"A", 1>>).val # ObjOf(cache, <<"B", 1>>).val
    /\ last.op = "load" /\ last.hit /\ last.key = <<"B", 1>>
    /\ last.ret = ObjOf(cache, <<"B", 1>>)
    /\ last.ret.val = JsonDecode(files[PathOf(<<"B", 1>>)].j)

\* C18: as long as no caller has changed a returned object in place, every
\* object a load returns, hit or miss, is a dict with host, port and debug
\* whose values the type check accepts; a hit returns the cached object as
\* it is now, without validating it, so a change a caller made in place is
\* what every later hit for that name returns.
MutationVisible ==
    /\ []((last.op = "load" /\ last.err = NoErr /\ ~mutated)
            => /\ last.ret.val.t = "dict"
               /\ \A key \in Required :
                     /\ key \in DOMAIN last.ret.val.f
                     /\ Accepted(last.ret.val.f[key], SchemaType(key)))
    /\ [][(IsLoad /\ Cached(last'.key))
            => /\ last'.hit /\ last'.err = NoErr /\ ~last'.validated
               /\ last'.ret = ObjOf(cache, last'.key)
               /\ ObjOf(cache', last'.key) = ObjOf(cache, last'.key)]_vars
\* a hit has returned an object whose port a caller had replaced by a string
MutationVisibleWitness ==
    /\ mutated /\ last.op = "load" /\ last.hit /\ last.err = NoErr
    /\ last.ret.val.f["port"] = [t |-> "str", s |-> "80"]
    /\ last.ret = ObjOf(cache, last.key)
====
